---- MODULE Spec2Model ----
(***************************************************************************)
(* teleop_keyboard: TeleopKeyboardNode and main.                           *)
(*                                                                         *)
(* Three execution contexts share the node's fields:                       *)
(*   - the pynput listener thread (daemon), which runs on_press and        *)
(*     on_release one event at a time and, inside them,                    *)
(*     update_target_velocities;                                           *)
(*   - the main thread inside rclpy.spin, which runs the 0.1 s timer       *)
(*     callback publish_twist_if_changed, one call at a time;              *)
(*   - the main thread after spin, which runs destroy_node and shutdown.   *)
(* No lock guards the fields, so the two threads interleave between        *)
(* statements.  Each statement that reads or writes a field the other      *)
(* thread uses is one step of the model.                                   *)
(*                                                                         *)
(* Velocities are in tenths: 0.5 m/s is 5 and 1.0 rad/s is 10.             *)
(***************************************************************************)
EXTENDS Integers, Sequences, FiniteSets

\* declare_parameter('linear_speed', 0.5), in tenths of m/s
LinearSpeed == 5
\* declare_parameter('angular_speed', 1.0), in tenths of rad/s
AngularSpeed == 10

\* Number of key events the keyboard delivers in one run.
MaxEvents == 2

\* pynput KeyCode objects, identified by their .char; "x" stands for every
\* character other than w, s, a, d.
CharKeys == {"w", "s", "a", "d", "x"}
\* pynput Key members (Esc, Shift, ...): they have no .char attribute.
SpecialKeys == {"esc"}
AllKeys == CharKeys \cup SpecialKeys
Directional == {"w", "s", "a", "d"}

\* geometry_msgs Twist(): every field is 0.0; only linear.x and angular.z are used.
Twist == [x |-> 0, z |-> 0]

VARIABLES
  pressed_keys,         \* self.pressed_keys
  target_linear_vel,    \* self.target_linear_vel
  target_angular_vel,   \* self.target_angular_vel
  last_published_twist, \* self.last_published_twist
  lpc,                  \* listener thread: "idle", the next line of update_target_velocities,
                        \* or "dead" once the thread has ended
  tpc,                  \* timer callback: "idle" or the next line of publish_twist_if_changed
  twist,                \* the local twist of publish_twist_if_changed
  phase,                \* main: "spin", "finally", "destroyed", "exited"
  published,            \* what publisher_.publish has been given, in order
  nEvents,              \* key events delivered so far
  \* history, read by the properties only
  refKeys,              \* key set kept by plain insert / remove of each event's char
  resolvedHist,         \* Resolve(K) of every K that pressed_keys has been
  changePending,        \* pressed_keys changed and no tick has started since the handler returned
  tickFresh,            \* the running tick started with the listener idle, no key event since
  tickFirst,            \* ... and it is the first such tick after a change of pressed_keys
  tickedSince,          \* a fresh tick has completed since the last key event
  runEmits,             \* emissions of ticks started since the target velocity last changed
  tickInRun,            \* the running tick started after the target velocity last changed
  emptied,              \* pressed_keys is empty because a release emptied it
  zeroPubs,             \* (0,0) emissions by ticks since pressed_keys last changed
  lateKey,              \* a key event was handled after destroy_node published
  lastEvent,            \* the last key event: its kind, the class of its key, whether
                        \* it changed pressed_keys; "none" before the first
  targetLeft            \* a target velocity field has held a non-zero value

code == <<pressed_keys, target_linear_vel, target_angular_vel, last_published_twist,
          lpc, tpc, twist, phase, published, nEvents>>
hist == <<refKeys, resolvedHist, changePending, tickFresh, tickFirst, tickedSince,
          runEmits, tickInRun, emptied, zeroPubs, lateKey, lastEvent, targetLeft>>
vars == <<code, hist>>

\* update_target_velocities run from its first line to its last on key set keys.
Resolve(keys) ==
  LET l0 == 0
      a0 == 0
      l1 == IF "w" \in keys THEN LinearSpeed ELSE l0
      l2 == IF "s" \in keys THEN -LinearSpeed ELSE l1
      a1 == IF "a" \in keys THEN AngularSpeed ELSE a0
      a2 == IF "d" \in keys THEN -AngularSpeed ELSE a1
  IN  [x |-> l2, z |-> a2]

Target == [x |-> target_linear_vel, z |-> target_angular_vel]

\* Construction with last_published_twist holding no command: a value unequal to
\* every Twist the node builds.
Init_NoLastTwist ==
  /\ pressed_keys = {}
  /\ target_linear_vel = 0
  /\ target_angular_vel = 0
  /\ last_published_twist = [x |-> -1, z |-> -1]
  /\ lpc = "idle"
  /\ tpc = "idle"
  /\ twist = Twist
  /\ phase = "spin"
  /\ published = <<>>
  /\ nEvents = 0
  /\ refKeys = {}
  /\ resolvedHist = {Resolve({})}
  /\ changePending = FALSE
  /\ tickFresh = FALSE
  /\ tickFirst = FALSE
  /\ tickedSince = TRUE
  /\ runEmits = 0
  /\ tickInRun = FALSE
  /\ emptied = FALSE
  /\ zeroPubs = 0
  /\ lateKey = FALSE
  /\ lastEvent = [kind |-> "none", class |-> "none", changed |-> FALSE]
  /\ targetLeft = FALSE

Init ==
  /\ pressed_keys = {}
  /\ target_linear_vel = 0
  /\ target_angular_vel = 0
  /\ last_published_twist = Twist
  /\ lpc = "idle"
  /\ tpc = "idle"
  /\ twist = Twist
  /\ phase = "spin"
  /\ published = <<>>
  /\ nEvents = 0
  /\ refKeys = {}
  /\ resolvedHist = {Resolve({})}
  /\ changePending = FALSE
  /\ tickFresh = FALSE
  /\ tickFirst = FALSE
  /\ tickedSince = TRUE
  /\ runEmits = 0
  /\ tickInRun = FALSE
  /\ emptied = FALSE
  /\ zeroPubs = 0
  /\ lateKey = FALSE
  /\ lastEvent = [kind |-> "none", class |-> "none", changed |-> FALSE]
  /\ targetLeft = FALSE

----
\* The listener thread.

\* No key handler is in progress.
NoHandler == lpc \in {"idle", "dead"}

\* The daemon thread lives until the process exits.
ListenerAlive == phase # "exited"

KeyClass(key) ==
  IF key \in Directional THEN "recognized"
  ELSE IF key \in CharKeys THEN "character" ELSE "special"

\* History kept at a key event of kind kind for key that leaves pressed_keys as keys.
KeyHistory(kind, key, keys) ==
  /\ resolvedHist' = resolvedHist \cup {Resolve(keys)}
  /\ changePending' = (changePending \/ keys # pressed_keys)
  /\ tickFresh' = FALSE
  /\ tickFirst' = FALSE
  /\ tickedSince' = FALSE
  /\ emptied' = IF keys # pressed_keys THEN keys = {} ELSE emptied
  /\ zeroPubs' = IF keys # pressed_keys THEN 0 ELSE zeroPubs
  /\ lateKey' = (lateKey \/ phase = "destroyed")
  /\ lastEvent' = [kind |-> kind, class |-> KeyClass(key), changed |-> keys # pressed_keys]
  /\ UNCHANGED <<runEmits, tickInRun, targetLeft>>

\* on_press with a key-down of a held key taking the key out again.
OnPress_Toggle(key) ==
  /\ ListenerAlive
  /\ lpc = "idle"
  /\ nEvents' = nEvents + 1
  /\ IF key \in SpecialKeys
       THEN /\ UNCHANGED <<pressed_keys, lpc, refKeys>>
            /\ KeyHistory("down", key, pressed_keys)
       ELSE /\ refKeys' = refKeys \cup {key}
            /\ IF key \notin pressed_keys
                 THEN /\ pressed_keys' = pressed_keys \cup {key}
                      /\ lpc' = "L91"
                      /\ KeyHistory("down", key, pressed_keys \cup {key})
                 ELSE /\ pressed_keys' = pressed_keys \ {key}
                      /\ lpc' = "L91"
                      /\ KeyHistory("down", key, pressed_keys \ {key})
  /\ UNCHANGED <<target_linear_vel, target_angular_vel, last_published_twist,
                 tpc, twist, phase, published>>

\* on_press taking the key itself when it has no character.
OnPress_AnyKey(key) ==
  /\ ListenerAlive
  /\ lpc = "idle"
  /\ nEvents' = nEvents + 1
  /\ refKeys' = IF key \in SpecialKeys THEN refKeys ELSE refKeys \cup {key}
  /\ IF key \notin pressed_keys
       THEN /\ pressed_keys' = pressed_keys \cup {key}
            /\ lpc' = "L91"
            /\ KeyHistory("down", key, pressed_keys \cup {key})
       ELSE /\ UNCHANGED <<pressed_keys, lpc>>
            /\ KeyHistory("down", key, pressed_keys)
  /\ UNCHANGED <<target_linear_vel, target_angular_vel, last_published_twist,
                 tpc, twist, phase, published>>

\* on_press calling update_target_velocities also for a key already held.
OnPress_Recompute(key) ==
  /\ ListenerAlive
  /\ lpc = "idle"
  /\ nEvents' = nEvents + 1
  /\ IF key \in SpecialKeys
       THEN /\ UNCHANGED <<pressed_keys, lpc, refKeys>>
            /\ KeyHistory("down", key, pressed_keys)
       ELSE /\ refKeys' = refKeys \cup {key}
            /\ pressed_keys' = pressed_keys \cup {key}
            /\ lpc' = "L91"
            /\ KeyHistory("down", key, pressed_keys \cup {key})
  /\ UNCHANGED <<target_linear_vel, target_angular_vel, last_published_twist,
                 tpc, twist, phase, published>>

\* on_press up to the call of update_target_velocities.
OnPress(key) ==
  /\ ListenerAlive
  /\ lpc = "idle"
  /\ nEvents' = nEvents + 1
  /\ IF key \in SpecialKeys
       THEN \* key.char raises AttributeError, caught
            /\ UNCHANGED <<pressed_keys, lpc, refKeys>>
            /\ KeyHistory("down", key, pressed_keys)
       ELSE /\ refKeys' = refKeys \cup {key}
            /\ IF key \notin pressed_keys
                 THEN /\ pressed_keys' = pressed_keys \cup {key}
                      /\ lpc' = "L91"
                      /\ KeyHistory("down", key, pressed_keys \cup {key})
                 ELSE /\ UNCHANGED <<pressed_keys, lpc>>
                      /\ KeyHistory("down", key, pressed_keys)
  /\ UNCHANGED <<target_linear_vel, target_angular_vel, last_published_twist,
                 tpc, twist, phase, published>>

\* on_release removing the key without calling update_target_velocities.
OnRelease_NoUpdate(key) ==
  /\ ListenerAlive
  /\ lpc = "idle"
  /\ nEvents' = nEvents + 1
  /\ IF key \in SpecialKeys
       THEN /\ UNCHANGED <<pressed_keys, lpc, refKeys>>
            /\ KeyHistory("up", key, pressed_keys)
       ELSE /\ refKeys' = refKeys \ {key}
            /\ pressed_keys' = pressed_keys \ {key}
            /\ UNCHANGED lpc
            /\ KeyHistory("up", key, pressed_keys \ {key})
  /\ UNCHANGED <<target_linear_vel, target_angular_vel, last_published_twist,
                 tpc, twist, phase, published>>

\* on_release up to the call of update_target_velocities; the Esc test does nothing.
OnRelease(key) ==
  /\ ListenerAlive
  /\ lpc = "idle"
  /\ nEvents' = nEvents + 1
  /\ IF key \in SpecialKeys
       THEN /\ UNCHANGED <<pressed_keys, lpc, refKeys>>
            /\ KeyHistory("up", key, pressed_keys)
       ELSE /\ refKeys' = refKeys \ {key}
            /\ IF key \in pressed_keys
                 THEN /\ pressed_keys' = pressed_keys \ {key}
                      /\ lpc' = "L91"
                      /\ KeyHistory("up", key, pressed_keys \ {key})
                 ELSE /\ UNCHANGED <<pressed_keys, lpc>>
                      /\ KeyHistory("up", key, pressed_keys)
  /\ UNCHANGED <<target_linear_vel, target_angular_vel, last_published_twist,
                 tpc, twist, phase, published>>

\* History kept when the listener writes the target velocity as (l, a).
WriteHistory(l, a) ==
  /\ runEmits' = IF <<l, a>> # <<target_linear_vel, target_angular_vel>> THEN 0 ELSE runEmits
  /\ tickInRun' = IF <<l, a>> # <<target_linear_vel, target_angular_vel>> THEN FALSE ELSE tickInRun
  /\ UNCHANGED <<refKeys, resolvedHist, changePending, tickFresh, tickFirst, tickedSince,
                 emptied, zeroPubs, lateKey, lastEvent>>
  /\ targetLeft' = (targetLeft \/ l # 0 \/ a # 0)

\* One line of update_target_velocities: at line from, the target becomes (l, a).
UpdateStep(from, to, l, a) ==
  /\ ListenerAlive
  /\ lpc = from
  /\ lpc' = to
  /\ target_linear_vel' = l
  /\ target_angular_vel' = a
  /\ WriteHistory(l, a)
  /\ UNCHANGED <<pressed_keys, last_published_twist, tpc, twist, phase, published, nEvents>>

Update91 == UpdateStep("L91", "L92", 0, target_angular_vel)
\* Line 92 without the reset of the angular velocity.
Update92_NoReset == UpdateStep("L92", "L94", target_linear_vel, target_angular_vel)
Update92 == UpdateStep("L92", "L94", target_linear_vel, 0)
Update94 ==
  UpdateStep("L94", "L96",
             IF "w" \in pressed_keys THEN LinearSpeed ELSE target_linear_vel,
             target_angular_vel)
\* Line 96 as an elif of line 94.
Update96_Elif ==
  UpdateStep("L96", "L98",
             IF "s" \in pressed_keys /\ "w" \notin pressed_keys
               THEN -LinearSpeed ELSE target_linear_vel,
             target_angular_vel)
\* Line 97 written with the angular speed.
Update96_AngularSpeed ==
  UpdateStep("L96", "L98",
             IF "s" \in pressed_keys THEN -AngularSpeed ELSE target_linear_vel,
             target_angular_vel)
Update96 ==
  UpdateStep("L96", "L98",
             IF "s" \in pressed_keys THEN -LinearSpeed ELSE target_linear_vel,
             target_angular_vel)
Update98 ==
  UpdateStep("L98", "L100", target_linear_vel,
             IF "a" \in pressed_keys THEN AngularSpeed ELSE target_angular_vel)
Update100 ==
  UpdateStep("L100", "idle", target_linear_vel,
             IF "d" \in pressed_keys THEN -AngularSpeed ELSE target_angular_vel)

\* The listener thread ends: listener.join() returns or raises in
\* start_keyboard_listener (the keyboard hook closes or fails).  No statement of
\* the handlers can raise past their except clause, so the thread ends between
\* two events.  Nothing else of the node is touched.
ListenerEnds ==
  /\ ListenerAlive
  /\ lpc = "idle"
  /\ lpc' = "dead"
  /\ tickFresh' = FALSE
  /\ tickFirst' = FALSE
  /\ tickedSince' = FALSE
  /\ UNCHANGED <<pressed_keys, target_linear_vel, target_angular_vel, last_published_twist,
                 tpc, twist, phase, published, nEvents>>
  /\ UNCHANGED <<refKeys, resolvedHist, changePending, runEmits, tickInRun, emptied,
                 zeroPubs, lateKey, lastEvent, targetLeft>>

update_target_velocities ==
  Update91 \/ Update92 \/ Update94 \/ Update96 \/ Update98 \/ Update100

----
\* The timer callback, run by rclpy.spin on the main thread.

\* A timer that keeps firing after spin has returned.
Spinning_UntilExit == phase # "exited"

\* A timer that dies with the listener thread.
Spinning_WithListener == phase = "spin" /\ lpc # "dead"

\* The timer fires only while main is inside rclpy.spin(node).
Spinning == phase = "spin"

\* twist = Twist(); twist.linear.x = self.target_linear_vel
Tick109 ==
  /\ Spinning
  /\ tpc = "idle"
  /\ twist' = [x |-> target_linear_vel, z |-> 0]
  /\ tpc' = "T110"
  /\ tickFresh' = NoHandler
  /\ tickFirst' = (NoHandler /\ changePending)
  /\ changePending' = IF NoHandler THEN FALSE ELSE changePending
  /\ tickInRun' = TRUE
  /\ UNCHANGED <<pressed_keys, target_linear_vel, target_angular_vel, last_published_twist,
                 lpc, phase, published, nEvents>>
  /\ UNCHANGED <<refKeys, resolvedHist, tickedSince, runEmits, emptied, zeroPubs, lateKey, lastEvent, targetLeft>>

\* Line 110 leaving twist.angular.z at the 0.0 of Twist().
Tick110_NoAngular ==
  /\ Spinning
  /\ tpc = "T110"
  /\ twist' = twist
  /\ tpc' = "T113"
  /\ UNCHANGED <<pressed_keys, target_linear_vel, target_angular_vel, last_published_twist,
                 lpc, phase, published, nEvents>>
  /\ UNCHANGED hist

\* twist.angular.z = self.target_angular_vel
Tick110 ==
  /\ Spinning
  /\ tpc = "T110"
  /\ twist' = [twist EXCEPT !.z = target_angular_vel]
  /\ tpc' = "T113"
  /\ UNCHANGED <<pressed_keys, target_linear_vel, target_angular_vel, last_published_twist,
                 lpc, phase, published, nEvents>>
  /\ UNCHANGED hist

\* The change gate comparing linear.x only.
Tick113_LinearOnly ==
  /\ Spinning
  /\ tpc = "T113"
  /\ IF twist.x # last_published_twist.x
       THEN /\ published' = Append(published, [src |-> "tick", x |-> twist.x, z |-> twist.z])
            /\ tpc' = "T117"
            /\ runEmits' = IF tickInRun THEN runEmits + 1 ELSE runEmits
            /\ zeroPubs' = IF twist = Twist THEN zeroPubs + 1 ELSE zeroPubs
            /\ UNCHANGED tickedSince
       ELSE /\ tpc' = "idle"
            /\ tickedSince' = (tickedSince \/ tickFresh)
            /\ UNCHANGED <<published, runEmits, zeroPubs>>
  /\ UNCHANGED <<pressed_keys, target_linear_vel, target_angular_vel, last_published_twist,
                 lpc, twist, phase, nEvents>>
  /\ UNCHANGED <<refKeys, resolvedHist, changePending, tickFresh, tickFirst, tickInRun,
                 emptied, lateKey, lastEvent, targetLeft>>

\* The comparison with last_published_twist and, when it differs, publisher_.publish(twist).
Tick113 ==
  /\ Spinning
  /\ tpc = "T113"
  /\ IF twist.x # last_published_twist.x \/ twist.z # last_published_twist.z
       THEN /\ published' = Append(published, [src |-> "tick", x |-> twist.x, z |-> twist.z])
            /\ tpc' = "T117"
            /\ runEmits' = IF tickInRun THEN runEmits + 1 ELSE runEmits
            /\ zeroPubs' = IF twist = Twist THEN zeroPubs + 1 ELSE zeroPubs
            /\ UNCHANGED tickedSince
       ELSE /\ tpc' = "idle"
            /\ tickedSince' = (tickedSince \/ tickFresh)
            /\ UNCHANGED <<published, runEmits, zeroPubs>>
  /\ UNCHANGED <<pressed_keys, target_linear_vel, target_angular_vel, last_published_twist,
                 lpc, twist, phase, nEvents>>
  /\ UNCHANGED <<refKeys, resolvedHist, changePending, tickFresh, tickFirst, tickInRun,
                 emptied, lateKey, lastEvent, targetLeft>>

\* Line 117 left out: last_published_twist is never stored.
Tick117_NoStore ==
  /\ Spinning
  /\ tpc = "T117"
  /\ last_published_twist' = last_published_twist
  /\ tpc' = "idle"
  /\ tickedSince' = (tickedSince \/ tickFresh)
  /\ UNCHANGED <<pressed_keys, target_linear_vel, target_angular_vel,
                 lpc, twist, phase, published, nEvents>>
  /\ UNCHANGED <<refKeys, resolvedHist, changePending, tickFresh, tickFirst,
                 runEmits, tickInRun, emptied, zeroPubs, lateKey, lastEvent, targetLeft>>

\* self.last_published_twist = twist
Tick117 ==
  /\ Spinning
  /\ tpc = "T117"
  /\ last_published_twist' = twist
  /\ tpc' = "idle"
  /\ tickedSince' = (tickedSince \/ tickFresh)
  /\ UNCHANGED <<pressed_keys, target_linear_vel, target_angular_vel,
                 lpc, twist, phase, published, nEvents>>
  /\ UNCHANGED <<refKeys, resolvedHist, changePending, tickFresh, tickFirst,
                 runEmits, tickInRun, emptied, zeroPubs, lateKey, lastEvent, targetLeft>>

publish_twist_if_changed == Tick109 \/ Tick110 \/ Tick113 \/ Tick117

----
\* main.

\* rclpy.spin ends (Ctrl+C or context shutdown), at any point of a timer callback.
SpinEnds ==
  /\ phase = "spin"
  /\ phase' = "finally"
  /\ UNCHANGED <<pressed_keys, target_linear_vel, target_angular_vel, last_published_twist,
                 lpc, tpc, twist, published, nEvents>>
  /\ UNCHANGED hist

\* destroy_node sending its stop through the change gate.
destroy_node_IfChanged ==
  /\ phase = "finally"
  /\ published' = IF last_published_twist # Twist
                    THEN Append(published, [src |-> "shutdown", x |-> Twist.x, z |-> Twist.z])
                    ELSE published
  /\ phase' = "destroyed"
  /\ UNCHANGED <<pressed_keys, target_linear_vel, target_angular_vel, last_published_twist,
                 lpc, tpc, twist, nEvents>>
  /\ UNCHANGED hist

\* destroy_node recording its stop as the last published twist.
destroy_node_StoresStop ==
  /\ phase = "finally"
  /\ published' = Append(published, [src |-> "shutdown", x |-> Twist.x, z |-> Twist.z])
  /\ last_published_twist' = Twist
  /\ phase' = "destroyed"
  /\ UNCHANGED <<pressed_keys, target_linear_vel, target_angular_vel,
                 lpc, tpc, twist, nEvents>>
  /\ UNCHANGED hist

\* destroy_node: stop_twist = Twist(); publisher_.publish(stop_twist)
destroy_node ==
  /\ phase = "finally"
  /\ published' = Append(published, [src |-> "shutdown", x |-> Twist.x, z |-> Twist.z])
  /\ phase' = "destroyed"
  /\ UNCHANGED <<pressed_keys, target_linear_vel, target_angular_vel, last_published_twist,
                 lpc, tpc, twist, nEvents>>
  /\ UNCHANGED hist

\* super().destroy_node(), rclpy.shutdown() and the return of main: the process
\* exits and takes the daemon listener thread with it.
ProcessExit ==
  /\ phase = "destroyed"
  /\ phase' = "exited"
  /\ UNCHANGED <<pressed_keys, target_linear_vel, target_angular_vel, last_published_twist,
                 lpc, tpc, twist, published, nEvents>>
  /\ UNCHANGED hist

----
KeyDown == \E key \in AllKeys : nEvents < MaxEvents /\ OnPress(key)
KeyUp == \E key \in AllKeys : nEvents < MaxEvents /\ OnRelease(key)

Next ==
  \/ KeyDown
  \/ KeyUp
  \/ update_target_velocities
  \/ ListenerEnds
  \/ publish_twist_if_changed
  \/ SpinEnds
  \/ destroy_node
  \/ ProcessExit

Spec == Init /\ [][Next]_vars

----
\* The end-to-end scenario of the specification: press forward, press
\* turn-left, release forward, release turn-left, then terminate, with at
\* least one whole tick after each key event.  The threads interleave freely
\* otherwise.
Scenario ==
  << [kind |-> "down", key |-> "w"], [kind |-> "down", key |-> "a"],
     [kind |-> "up", key |-> "w"], [kind |-> "up", key |-> "a"] >>

ScenarioKey ==
  /\ nEvents < Len(Scenario)
  /\ tickedSince
  /\ IF Scenario[nEvents + 1].kind = "down"
       THEN OnPress(Scenario[nEvents + 1].key)
       ELSE OnRelease(Scenario[nEvents + 1].key)

ScenarioEnds ==
  /\ nEvents = Len(Scenario)
  /\ tickedSince
  /\ SpinEnds

NextE2E ==
  \/ ScenarioKey
  \/ update_target_velocities
  \/ publish_twist_if_changed
  \/ ScenarioEnds
  \/ destroy_node
  \/ ProcessExit

SpecE2E == Init /\ [][NextE2E]_vars

----
\* Properties.

TickEntry(t) == [src |-> "tick", x |-> t.x, z |-> t.z]
StopEntry == [src |-> "shutdown", x |-> 0, z |-> 0]
IsTick(e) == e.src = "tick"
IsShutdown(e) == e.src = "shutdown"
TickPubs == SelectSeq(published, IsTick)
ShutdownPubs == SelectSeq(published, IsShutdown)
\* The tick's comparison step is being taken.
TickDecides == tpc = "T113" /\ tpc' # "T113"

\* C1: once main has left spin and destroy_node has run, the shutdown path has
\* published exactly one command, it is (0,0), and it is the last command
\* published, whatever keys are held and whatever the ticks published before;
\* before destroy_node the shutdown path has published nothing.
C1_ShutdownStopIsLast ==
  /\ phase \in {"spin", "finally"} => Len(ShutdownPubs) = 0
  /\ phase \in {"destroyed", "exited"} =>
       /\ Len(ShutdownPubs) = 1
       /\ published[Len(published)] = StopEntry

\* C1 witness: destroy_node has published its stop right after a tick emission of (0,0).
C1_Witness ==
  /\ phase = "destroyed"
  /\ Len(published) >= 2
  /\ published[Len(published) - 1] = TickEntry(Twist)
  /\ published[Len(published)] = StopEntry

\* C2 (as claimed): every command a tick publishes is the velocity resolved from
\* a key set that pressed_keys has been at some moment.
C2_TickPublishesResolvedKeyState ==
  \A i \in DOMAIN published :
    IsTick(published[i]) => [x |-> published[i].x, z |-> published[i].z] \in resolvedHist

\* C3 (as claimed): with forward and backward both held the resolved linear
\* velocity is +linearSpeed, with turn-left and turn-right both held the
\* resolved angular velocity is +angularSpeed.
C3_FirstCheckedWins ==
  lpc = "idle" =>
    /\ {"w", "s"} \subseteq pressed_keys => target_linear_vel = LinearSpeed
    /\ {"a", "d"} \subseteq pressed_keys => target_angular_vel = AngularSpeed

\* C3 (amended): the key checked last wins: with forward and backward both held
\* the resolved linear velocity is -linearSpeed, with turn-left and turn-right
\* both held the resolved angular velocity is -angularSpeed.
C3_LastCheckedWins ==
  lpc = "idle" =>
    /\ {"w", "s"} \subseteq pressed_keys => target_linear_vel = -LinearSpeed
    /\ {"a", "d"} \subseteq pressed_keys => target_angular_vel = -AngularSpeed

\* C3 witness: forward and backward are both held and the handler has returned.
C3_Witness == lpc = "idle" /\ {"w", "s"} \subseteq pressed_keys

\* The resolution rule of the specification, section 4.2.
Reference(keys) ==
  [x |-> IF "w" \in keys THEN LinearSpeed
         ELSE IF "s" \in keys THEN -LinearSpeed ELSE 0,
   z |-> IF "a" \in keys THEN AngularSpeed
         ELSE IF "d" \in keys THEN -AngularSpeed ELSE 0]
OnePerAxis(keys) == ~({"w", "s"} \subseteq keys) /\ ~({"a", "d"} \subseteq keys)

\* C4: whenever a handler has returned and at most one key per axis is held, the
\* target velocity is the reference result for the held keys, whatever happened
\* before; {} gives (0,0), {forward} gives (+linearSpeed, 0), {forward,
\* turn-right} gives (+linearSpeed, -angularSpeed).
C4_ReferenceResolution ==
  /\ lpc = "idle" /\ OnePerAxis(pressed_keys) => Target = Reference(pressed_keys)
  /\ lpc = "idle" /\ pressed_keys = {} => Target = [x |-> 0, z |-> 0]
  /\ lpc = "idle" /\ pressed_keys = {"w"} => Target = [x |-> LinearSpeed, z |-> 0]
  /\ lpc = "idle" /\ pressed_keys = {"w", "d"} =>
       Target = [x |-> LinearSpeed, z |-> -AngularSpeed]

\* C4 witness: forward and turn-right are held and resolved.
C4_Witness ==
  /\ lpc = "idle"
  /\ pressed_keys = {"w", "d"}
  /\ Target = [x |-> LinearSpeed, z |-> -AngularSpeed]

\* C5: the ticks started since the target velocity last changed have emitted at
\* most once between them, and no two consecutive tick emissions carry the same
\* (linear, angular) value.
C5_NoDuplicateEmission ==
  /\ runEmits <= 1
  /\ \A i \in 1..(Len(TickPubs) - 1) : TickPubs[i] # TickPubs[i + 1]

\* C5 witness: after two emissions, a further tick of an unchanged target
\* velocity is at its comparison and finds nothing to send.
C5_Witness ==
  /\ Len(TickPubs) >= 2
  /\ runEmits = 1
  /\ tickInRun
  /\ tpc = "T113"
  /\ twist = last_published_twist

\* C6 (as claimed): the first tick that runs after a handler changed pressed_keys
\* and returned publishes the velocity resolved from the new key set.
C6_FirstTickEmits ==
  [][TickDecides /\ tickFirst =>
       published' = Append(published, TickEntry(Resolve(pressed_keys)))]_vars

\* C6 (amended): that tick publishes the velocity resolved from the new key set
\* when it differs from the last command a tick published, and publishes nothing
\* when it is equal.
C6_FirstTickReflects ==
  [][TickDecides /\ tickFirst =>
       IF Resolve(pressed_keys) # last_published_twist
         THEN published' = Append(published, TickEntry(Resolve(pressed_keys)))
         ELSE published' = published]_vars

\* C6 witness: the first tick after a key-state change has just published the
\* velocity resolved from the new key set.
C6_Witness ==
  /\ tickFirst
  /\ tpc = "T117"
  /\ pressed_keys # {}
  /\ published # <<>>
  /\ published[Len(published)] = TickEntry(Resolve(pressed_keys))

\* C7 (as claimed): a tick publishes (0,0) only while no directional key is held
\* and not a second time while the key set stays empty; and the tick that runs
\* after a release emptied the key set publishes (0,0), unless the last command
\* a tick published is (0,0) already.
C7_StopExactlyOnce ==
  [][TickDecides =>
       /\ (published' # published /\ twist = Twist) =>
            /\ pressed_keys \cap Directional = {}
            /\ (emptied => zeroPubs = 0)
       /\ (tickFresh /\ emptied /\ last_published_twist # Twist) =>
            published' = Append(published, TickEntry(Twist))]_vars

\* The emissions the scenario expects, followed by the shutdown stop.
Expected ==
  << TickEntry([x |-> LinearSpeed, z |-> 0]),
     TickEntry([x |-> LinearSpeed, z |-> AngularSpeed]),
     TickEntry([x |-> 0, z |-> AngularSpeed]),
     TickEntry([x |-> 0, z |-> 0]),
     StopEntry >>

\* C8 (as claimed): when the scenario has run and destroy_node has published,
\* the commands published are exactly (0.5,0), (0.5,1.0), (0,1.0), (0,0) and the
\* shutdown (0,0).
C8_ScenarioSequence ==
  phase \in {"destroyed", "exited"} => published = Expected

\* C9 (as claimed): after destroy_node has published the zero command,
\* pressed_keys and the target velocity no longer change and nothing is published.
C9_ListenerStopped ==
  [][(phase = "destroyed" \/ phase = "exited") =>
       (UNCHANGED <<pressed_keys, target_linear_vel, target_angular_vel, published>>)]_vars

\* C9 (amended): after destroy_node has published the zero command nothing is
\* published any more and last_published_twist stays as it is, although the
\* listener still handles key events until the process exits.
C9_NoCommandAfterStop ==
  [][(phase = "destroyed" \/ phase = "exited") =>
       (UNCHANGED <<published, last_published_twist>>)]_vars

\* C9 witness: a key event handled after the stop command has set a target
\* velocity other than zero, and the stop command is still the last one.
C9_Witness ==
  /\ lateKey
  /\ phase = "destroyed"
  /\ lpc = "idle"
  /\ Target # Twist
  /\ published[Len(published)] = StopEntry

\* C10: pressed_keys is the set obtained by inserting the character of every
\* key-down and removing the character of every key-up, in order; a key-down of
\* a held key and a key-up of a key not held change nothing.
C10_NetEffect == pressed_keys = refKeys

\* C10 witness: two events, one of which changed nothing, have left one key held.
C10_Witness == nEvents = 2 /\ Cardinality(pressed_keys) = 1 /\ lpc = "idle"

\* C11 (as claimed): pressed_keys holds only the four recognized keys.
C11_OnlyRecognizedKeys == pressed_keys \subseteq Directional

\* C11 (amended): pressed_keys holds only characters of character keys, the
\* four recognized ones or any other; a key without a character never enters
\* it; and the other characters do not count in the resolved velocity: when the
\* handler has returned the target velocity is the one resolved from the
\* recognized keys held.
C11_OnlyCharacterKeys ==
  /\ pressed_keys \subseteq CharKeys
  /\ lpc = "idle" => Target = Resolve(pressed_keys \cap Directional)

\* C11 witness: a character other than w, s, a, d is held next to a recognized key.
C11_Witness ==
  /\ lpc = "idle"
  /\ "x" \in pressed_keys
  /\ pressed_keys \cap Directional # {}
  /\ Target # Twist

\* The listener takes a step: a key event arrives or a line of the handler runs.
ListenerSteps == nEvents' # nEvents \/ lpc' # lpc

\* C12 (as claimed): the event of an unrecognized key (a key without a character,
\* or a character other than w, s, a, d) does not end the listener, no step of
\* its handler changes the target velocity, and while it is the latest event no
\* tick publishes anything but the velocity of the keys held.
C12_UnrecognizedKeyIgnored ==
  [][lastEvent'.class \in {"character", "special"} =>
       /\ nEvents' # nEvents => lpc' # "dead"
       /\ (ListenerSteps /\ lpc' # "dead") => Target' = Target
       /\ (TickDecides /\ published' # published) => twist = Resolve(pressed_keys)]_vars

\* The same for keys without a character alone.
SpecialKeyIgnored ==
  [][lastEvent'.class = "special" =>
       /\ nEvents' # nEvents => lpc' # "dead"
       /\ (ListenerSteps /\ lpc' # "dead") => UNCHANGED <<pressed_keys, Target, lpc>>
       /\ (TickDecides /\ published' # published) => twist = Resolve(pressed_keys)]_vars

\* C13: a key-down of a character key that is held and a key-up of a character
\* key that is not held leave pressed_keys, the target velocity and
\* last_published_twist as they are and do not enter update_target_velocities.
C13_NoOpEvents ==
  [][\A k \in CharKeys :
       ((k \in pressed_keys /\ OnPress(k)) \/ (k \notin pressed_keys /\ OnRelease(k))) =>
         (UNCHANGED <<pressed_keys, target_linear_vel, target_angular_vel,
                      last_published_twist, lpc>>)]_vars

\* C13 witness: the last event was the key-down of a recognized key already
\* held; the handler returned at once and the target velocity is still the
\* one of the held keys, which a tick has published.
C13_Witness ==
  /\ lastEvent = [kind |-> "down", class |-> "recognized", changed |-> FALSE]
  /\ lpc = "idle"
  /\ Target # Twist
  /\ last_published_twist = Target

\* C14: once the listener thread has ended, the target velocity stays the one
\* last resolved, the timer callback can still run inside spin, destroy_node
\* can still run after it, and once it has run the stop command is the last
\* command published.
C14_ListenerEndSpared ==
  lpc = "dead" =>
    /\ Target = Resolve(pressed_keys)
    /\ phase = "spin" => ENABLED publish_twist_if_changed
    /\ phase = "spin" => ENABLED SpinEnds
    /\ phase = "finally" => ENABLED destroy_node
    /\ phase \in {"destroyed", "exited"} =>
         (published # <<>> /\ published[Len(published)] = StopEntry)

\* C14 witness: the listener ended with a key held; a tick that started after
\* that ran to its end, and the shutdown path then published its stop after
\* the command of a tick.
C14_Witness ==
  /\ lpc = "dead"
  /\ tickedSince
  /\ Target # Twist
  /\ last_published_twist = Target
  /\ phase = "destroyed"
  /\ Len(published) >= 2
  /\ published[Len(published)] = StopEntry

LinearValues == {0, LinearSpeed, -LinearSpeed}
AngularValues == {0, AngularSpeed, -AngularSpeed}

\* C15: in every state, also between two lines of update_target_velocities,
\* target_linear_vel is 0, +linearSpeed or -linearSpeed and target_angular_vel
\* is 0, +angularSpeed or -angularSpeed; so are the two components of every
\* command published and of the twist a tick has sampled.
C15_VelocityValues ==
  /\ target_linear_vel \in LinearValues
  /\ target_angular_vel \in AngularValues
  /\ twist.x \in LinearValues /\ twist.z \in AngularValues
  /\ \A i \in DOMAIN published :
       published[i].x \in LinearValues /\ published[i].z \in AngularValues

\* C15 witness: in the middle of a recomputation, with backward held and the
\* linear velocity just written, after a tick has published a backward command.
C15_Witness ==
  /\ lpc = "L98"
  /\ "s" \in pressed_keys
  /\ target_linear_vel = -LinearSpeed
  /\ published # <<>>
  /\ published[Len(published)].x = -LinearSpeed

\* C16: initially and whenever no key handler is in progress, the target
\* velocity is the one update_target_velocities resolves from the current
\* pressed_keys; and no step of the timer callback changes pressed_keys or the
\* target velocity.
C16_ResolvedInline ==
  /\ NoHandler => Target = Resolve(pressed_keys)
  /\ [][/\ NoHandler' => Target' = Resolve(pressed_keys')
        /\ tpc' # tpc =>
             (UNCHANGED <<pressed_keys, target_linear_vel, target_angular_vel>>)]_vars

\* C16 witness: a release has been resolved (one key was released, the other is
\* still held) and a tick has sampled the result and is about to publish it.
C16_Witness ==
  /\ lastEvent = [kind |-> "up", class |-> "recognized", changed |-> TRUE]
  /\ lpc = "idle"
  /\ tpc = "T113"
  /\ twist = Resolve(pressed_keys)
  /\ twist # last_published_twist

\* The command a tick published last, the initial Twist() when none has.
LastTickVel ==
  IF TickPubs = <<>> THEN Twist
  ELSE [x |-> TickPubs[Len(TickPubs)].x, z |-> TickPubs[Len(TickPubs)].z]
\* A call of the timer callback is in progress.
TickRunning == phase = "spin" /\ tpc # "idle"

\* C17 (as claimed): outside a call of the timer callback, last_published_twist
\* is the command a tick published last, or the initial zero value.
C17_EqualsLastTickCommand == ~TickRunning => last_published_twist = LastTickVel

\* C17 (amended): last_published_twist is changed only by line 117 of a tick
\* that has published, and only to the value that tick published; key handlers,
\* a tick that does not publish and the shutdown send leave it unchanged; and it
\* is the command a tick published last except from a tick's publish until its
\* line 117, which never runs when spin ends in between.
C17_StoredAfterPublish ==
  /\ last_published_twist = LastTickVel
  /\ [][/\ last_published_twist' # last_published_twist =>
             (tpc = "T117" /\ tpc' = "idle" /\ last_published_twist' = LastTickVel')
        /\ tpc' # "T117" => last_published_twist' = LastTickVel']_vars

\* C17 witness: a tick published a command and stored it, and the shutdown
\* stop, published after it, has left last_published_twist at that command.
C17_Witness ==
  /\ phase = "destroyed"
  /\ tpc = "idle"
  /\ TickPubs # <<>>
  /\ last_published_twist = LastTickVel
  /\ last_published_twist # Twist
  /\ published[Len(published)] = StopEntry

\* C18: while no target velocity field has ever held a non-zero value no tick
\* has published anything; and in a run where no directional key has been
\* pressed the target never leaves (0,0) and the only command published is the
\* shutdown zero command.  (Resolve is (0,0) on exactly the key sets without a
\* directional key, so resolvedHist = {Twist} says none was ever pressed.)
C18_NothingBeforeFirstMotion ==
  /\ ~targetLeft => TickPubs = <<>>
  /\ resolvedHist = {Twist} =>
       /\ ~targetLeft
       /\ published \in {<<>>, <<StopEntry>>}
       /\ (phase = "destroyed" \/ phase = "exited") => published = <<StopEntry>>

\* C18 witness: a run with a non-directional key held, a whole tick since, and
\* the node destroyed: the shutdown stop is the only command.
C18_Witness ==
  /\ "x" \in pressed_keys
  /\ lpc = "idle"
  /\ tickedSince
  /\ ~targetLeft
  /\ phase = "destroyed"
  /\ published = <<StopEntry>>

====
